---- MODULE Spec2Model ----
(***************************************************************************)
(* Model of src/bot.py (WeeklyFileBot): the next-Friday calculator, the    *)
(* command handlers, generate_file, send_file and the weekly job, as       *)
(* coroutines of one asyncio event loop.                                   *)
(***************************************************************************)
EXTENDS Integers, Sequences, FiniteSets, TLC

(***************************************************************************)
(* Bounds of the model.                                                    *)
(***************************************************************************)
MaxDay == 13
MaxUser == 2
MaxFiles == 1
MaxBatch == 3

(***************************************************************************)
(* Program constants.                                                      *)
(***************************************************************************)
TargetWeekday == 4
TargetHour == 10

VARIABLES
  now,               \* the wall clock read by datetime.now()
  next_friday,       \* <<>> or <<r>>: the value get_next_friday returned
  authorized_users,  \* self.authorized_users
  config,            \* which of token, chat_id, huami_email, huami_password are set
  app,               \* how far run() got: handlers, weekly job, polling
  cmd,               \* the update the dispatcher handled last / is handling
  pc,                \* position of each coroutine
  file_paths,        \* per coroutine: the list generate_file returned
  tool,              \* coroutines whose huami-token subprocess is running
  lastGen,           \* per coroutine: what its last subprocess did
  genCalls,          \* per coroutine: generate_file calls of the current run
  disk,              \* .zip/.bin files in /app/huami-token
  replies,           \* reply_text calls of the current command, in order
  outcome,           \* per coroutine: what send_file did with each file so far
  sendResult,        \* per coroutine: "none", "true", "false" (send_file)
  sched,             \* locals of weekly_scheduler and what its last round did
  ns                 \* locals of next_send_command and its reply

clockVars == <<now, next_friday, ns>>
botVars == <<authorized_users, config, app, cmd, pc, file_paths, tool, lastGen,
             genCalls, disk, replies, outcome, sendResult, sched, ns>>
vars == <<now, next_friday, authorized_users, config, app, cmd, pc, file_paths,
          tool, lastGen, genCalls, disk, replies, outcome, sendResult, sched, ns>>

(***************************************************************************)
(* Domains.                                                                *)
(***************************************************************************)
Hours == 0..23
Minutes == {0, 30, 59}
Seconds == {0, 59}
Micros == {0, 999999}
Instants == [day : 0..MaxDay, hour : Hours, minute : Minutes,
             second : Seconds, microsecond : Micros]
UserIds == 1..MaxUser
Files == 1..MaxFiles
BatchFiles == 1..MaxBatch
Tasks == {"cmd", "job", "sched"}
Kinds == {"start", "status", "send_now", "next_send"}

(***************************************************************************)
(* datetime: day is the date's ordinal, day 0 a Monday.                    *)
(***************************************************************************)
weekday(t) == t.day % 7

timedelta_add(t, days) == [t EXCEPT !.day = t.day + days]

replace_time(t, h, m, s, us) ==
  [t EXCEPT !.hour = h, !.minute = m, !.second = s, !.microsecond = us]

TimeOfDay(t) == <<t.hour, t.minute, t.second, t.microsecond>>

TupleLess(a, b) ==
  \E i \in 1..Len(a) : a[i] < b[i] /\ \A j \in 1..(i - 1) : a[j] = b[j]

InstantLess(a, b) == TupleLess(<<a.day>> \o TimeOfDay(a), <<b.day>> \o TimeOfDay(b))

TargetTime == <<TargetHour, 0, 0, 0>>

\* timedelta: days, seconds, microseconds, normalized as Python does
\* (0 <= seconds < 86400, 0 <= microseconds < 1000000; days may be negative).
SecondsOfDay(t) == t.hour * 3600 + t.minute * 60 + t.second

\* datetime - datetime (bot.py 121, 283)
datetime_sub(a, b) ==
  LET us0 == a.microsecond - b.microsecond
      s0 == SecondsOfDay(a) - SecondsOfDay(b) - (IF us0 < 0 THEN 1 ELSE 0)
      d0 == a.day - b.day - (IF s0 < 0 THEN 1 ELSE 0)
  IN [days |-> d0,
      seconds |-> IF s0 < 0 THEN s0 + 86400 ELSE s0,
      microseconds |-> IF us0 < 0 THEN us0 + 1000000 ELSE us0]

\* The instant that lies a non-negative timedelta after t.
datetime_add(t, delta) ==
  LET us0 == t.microsecond + delta.microseconds
      s0 == SecondsOfDay(t) + delta.seconds + (IF us0 >= 1000000 THEN 1 ELSE 0)
      s1 == s0 % 86400
  IN [day |-> t.day + delta.days + (s0 \div 86400),
      hour |-> s1 \div 3600,
      minute |-> (s1 % 3600) \div 60,
      second |-> s1 % 60,
      microsecond |-> us0 % 1000000]

\* timedelta.total_seconds() > 0 and <= 7 * 86400
DeltaPositive(delta) ==
  delta.days >= 0 /\ (delta.days > 0 \/ delta.seconds > 0 \/ delta.microseconds > 0)
DeltaAtMostWeek(delta) ==
  delta.days < 7 \/ (delta.days = 7 /\ delta.seconds = 0 /\ delta.microseconds = 0)

(***************************************************************************)
(* get_next_friday (bot.py 107-115), as a function of the clock value it   *)
(* reads.  The three variants before it differ from it in one place each.  *)
(***************************************************************************)
get_next_friday_strict(t) ==
  LET d0 == (TargetWeekday - weekday(t)) % 7
      days_until_friday == IF d0 = 0 /\ t.hour > TargetHour THEN 7 ELSE d0
  IN replace_time(timedelta_add(t, days_until_friday), TargetHour, 0, 0, 0)

get_next_friday_always_week(t) ==
  LET d0 == (TargetWeekday - weekday(t)) % 7
      days_until_friday == IF d0 = 0 THEN 7 ELSE d0
  IN replace_time(timedelta_add(t, days_until_friday), TargetHour, 0, 0, 0)

get_next_friday_sunday(t) ==
  LET d0 == (6 - weekday(t)) % 7
      days_until_friday == IF d0 = 0 /\ t.hour >= TargetHour THEN 7 ELSE d0
  IN replace_time(timedelta_add(t, days_until_friday), TargetHour, 0, 0, 0)

get_next_friday(t) ==
  LET d0 == (TargetWeekday - weekday(t)) % 7
      days_until_friday == IF d0 = 0 /\ t.hour >= TargetHour THEN 7 ELSE d0
  IN replace_time(timedelta_add(t, days_until_friday), TargetHour, 0, 0, 0)

(***************************************************************************)
(* State of the bot while only the calculator is exercised.                *)
(***************************************************************************)
\* The environment values read in __init__ (bot.py 29-32): set or not set;
\* a chat id that is set is a number or a name such as "@channel".
Configs == [token : BOOLEAN, chat_id : {"", "numeric", "name"},
            huami_email : BOOLEAN, huami_password : BOOLEAN]
FullConfig == [token |-> TRUE, chat_id |-> "numeric",
               huami_email |-> TRUE, huami_password |-> TRUE]

\* run() has not been called yet.
NewApp == [state |-> "new", handlers |-> {}, job |-> FALSE]

NoCmd == [kind |-> "none", user |-> 0, authorized |-> FALSE]

\* weekly_scheduler (bot.py 275-304): now, next_friday, sleep_seconds are its
\* locals (<<>>: not set), wake the instant its pending asyncio.sleep is over;
\* prev is the occurrence it triggered last, the flags record what was true
\* when the round passed the point named.
NoSched == [now |-> <<>>, next_friday |-> <<>>, sleep_seconds |-> <<>>,
            wake |-> <<>>, prev |-> <<>>,
            triggered_early |-> FALSE,   \* generate_file called before next_friday
            finished_in_time |-> FALSE,  \* attempt over before next_friday + 7 days
            read_in_time |-> FALSE,      \* get_next_friday read before prev + 7 days
            recovered |-> FALSE]         \* the recovery sleep ran after the attempt

\* next_send_command (bot.py 95-105): its reply, once sent.
NoNs == [pc |-> "idle", next_send |-> <<>>, next_friday |-> <<>>, now |-> <<>>,
         reply |-> <<>>]
NoGen == [exit |-> "none", produced |-> FALSE]

BotQuiet ==
  /\ app = NewApp
  /\ cmd = NoCmd
  /\ pc = [t \in Tasks |-> "idle"]
  /\ file_paths = [t \in Tasks |-> <<>>]
  /\ tool = {}
  /\ lastGen = [t \in Tasks |-> NoGen]
  /\ genCalls = [t \in Tasks |-> 0]
  /\ disk = {}
  /\ replies = <<>>
  /\ outcome = [t \in Tasks |-> <<>>]
  /\ sendResult = [t \in Tasks |-> "none"]
  /\ sched = NoSched
  /\ ns = NoNs

(***************************************************************************)
(* Specification OccSpec: the clock takes any value, get_next_friday is    *)
(* called on it.                                                           *)
(***************************************************************************)
OccInit ==
  /\ now \in Instants
  /\ next_friday = <<>>
  /\ authorized_users = {}
  /\ config = FullConfig
  /\ BotQuiet

CallGetNextFriday ==
  /\ next_friday = <<>>
  /\ next_friday' = <<get_next_friday(now)>>
  /\ UNCHANGED <<now, botVars>>

ClockAdvance ==
  /\ next_friday # <<>>
  /\ \E d \in {now.day, now.day + 1} \cap (0..MaxDay) :
       \E h \in (IF d = now.day THEN {now.hour, now.hour + 1} ELSE {0}) \cap Hours :
         \E m \in Minutes, s \in Seconds, us \in Micros :
           LET t == [day |-> d, hour |-> h, minute |-> m, second |-> s,
                     microsecond |-> us]
           IN InstantLess(now, t) /\ now' = t
  /\ next_friday' = <<>>
  /\ UNCHANGED botVars

OccNext == CallGetNextFriday \/ ClockAdvance

OccSpec == OccInit /\ [][OccNext]_vars

OnTargetWeekday == weekday(now) = TargetWeekday
AtOrAfterTargetTime == ~TupleLess(TimeOfDay(now), TargetTime)
TodayAtTarget == [day |-> now.day, hour |-> TargetHour, minute |-> 0,
                  second |-> 0, microsecond |-> 0]
WeekLaterAtTarget == [day |-> now.day + 7, hour |-> TargetHour, minute |-> 0,
                      second |-> 0, microsecond |-> 0]

\* C1: on the target weekday at or after the target time (the target time
\* itself included) get_next_friday returns the instant 7 days after today's
\* date at the target time, never today's target instant and never now.
C1_AtOrAfterTargetGivesNextWeek ==
  (next_friday # <<>> /\ OnTargetWeekday /\ AtOrAfterTargetTime)
    => /\ next_friday[1] = WeekLaterAtTarget
       /\ next_friday[1] # TodayAtTarget
       /\ next_friday[1] # now

C1_Witness ==
  /\ next_friday # <<>>
  /\ OnTargetWeekday
  /\ TimeOfDay(now) = TargetTime
  /\ next_friday[1].day = now.day + 7

\* C2: on the target weekday strictly before the target time get_next_friday
\* returns the same calendar day at the target time, seconds and
\* microseconds zero.
C2_BeforeTargetGivesSameDay ==
  (next_friday # <<>> /\ OnTargetWeekday /\ ~AtOrAfterTargetTime)
    => /\ next_friday[1].day = now.day
       /\ TimeOfDay(next_friday[1]) = TargetTime
       /\ next_friday[1].second = 0
       /\ next_friday[1].microsecond = 0

C2_Witness ==
  /\ next_friday # <<>>
  /\ OnTargetWeekday
  /\ TimeOfDay(now) = <<TargetHour - 1, 59, 59, 999999>>
  /\ next_friday[1] = TodayAtTarget

\* C3: on any other weekday get_next_friday returns a date 1 to 6 days
\* ahead whose weekday is the target weekday, at the target time of day, and
\* the returned instant is not earlier than now.
C3_OtherWeekdayGivesNextTarget ==
  (next_friday # <<>> /\ ~OnTargetWeekday)
    => /\ next_friday[1].day - now.day \in 1..6
       /\ weekday(next_friday[1]) = TargetWeekday
       /\ TimeOfDay(next_friday[1]) = TargetTime
       /\ ~InstantLess(next_friday[1], now)

C3_Witness ==
  /\ next_friday # <<>>
  /\ weekday(now) = 5
  /\ next_friday[1].day - now.day = 6
  /\ now.hour = 23

(***************************************************************************)
(* The bot.  Its coroutines run on one asyncio event loop: "cmd" is the    *)
(* update dispatcher, which awaits one handler at a time (the Application  *)
(* is built without concurrent updates, bot.py 336), "job" is the          *)
(* weekly_job_callback run by the job queue.  A step below is the code a   *)
(* coroutine runs between two suspensions.                                 *)
(***************************************************************************)
Orderings(S) ==
  {s \in [1..Cardinality(S) -> S] : \A i, j \in 1..Cardinality(S) : s[i] = s[j] => i = j}

\* Path.iterdir() filtered on the suffix (bot.py 175-177): the matching
\* files of the directory, in an order the file system chooses.
iterdir(d) == Orderings(d)

\* is_authorized (bot.py 42-47)
is_authorized_closed(user_id) == user_id \in authorized_users

is_authorized(user_id) ==
  IF authorized_users = {} THEN TRUE ELSE user_id \in authorized_users

\* subprocess.run (bot.py 151-156) is a synchronous call inside a coroutine:
\* while a subprocess runs the event loop runs nothing else.
LoopFree_async == TRUE

LoopFree == tool = {}

BotInit ==
  /\ now = [day |-> 0, hour |-> 0, minute |-> 0, second |-> 0, microsecond |-> 0]
  /\ next_friday = <<>>
  /\ authorized_users \in SUBSET UserIds
  /\ config \in Configs
  /\ BotQuiet

\* run (bot.py 320-354): returns when a setting is missing, else registers
\* the four handlers, schedules the weekly job and starts polling.
run_unchecked_credentials ==
  /\ app.state = "new"
  /\ app' = IF ~config.token \/ config.chat_id = ""
              THEN [state |-> "returned", handlers |-> {}, job |-> FALSE]
              ELSE [state |-> "polling", handlers |-> Kinds, job |-> TRUE]
  /\ UNCHANGED <<clockVars, authorized_users, config, cmd, pc, file_paths, tool,
                 lastGen, genCalls, disk, replies, outcome, sendResult, sched>>

run ==
  /\ app.state = "new"
  /\ app' = IF \/ ~config.token
               \/ config.chat_id = ""
               \/ ~config.huami_email \/ ~config.huami_password
              THEN [state |-> "returned", handlers |-> {}, job |-> FALSE]
              ELSE [state |-> "polling", handlers |-> Kinds, job |-> TRUE]
  /\ UNCHANGED <<clockVars, authorized_users, config, cmd, pc, file_paths, tool,
                 lastGen, genCalls, disk, replies, outcome, sendResult, sched>>

\* The dispatcher polls once run() started it, awaits each handler before it
\* takes the next update, and runs only when the event loop does.
Dispatchable ==
  /\ app.state = "polling"
  /\ LoopFree
  /\ pc["cmd"] = "idle"

\* The dispatcher enters the handler of an update of kind k sent by user u;
\* the bookkeeping of the previous handler is cleared.
EnterHandler(k, u) ==
  /\ cmd' = [kind |-> k, user |-> u, authorized |-> is_authorized(u)]
  /\ file_paths' = [file_paths EXCEPT !["cmd"] = <<>>]
  /\ lastGen' = [lastGen EXCEPT !["cmd"] = NoGen]
  /\ genCalls' = [genCalls EXCEPT !["cmd"] = 0]
  /\ outcome' = [outcome EXCEPT !["cmd"] = <<>>]
  /\ sendResult' = [sendResult EXCEPT !["cmd"] = "none"]
  /\ UNCHANGED <<clockVars, authorized_users, config, app, tool, disk, sched>>

\* start_command (bot.py 49-62)
start_command ==
  /\ Dispatchable
  /\ "start" \in app.handlers
  /\ \E u \in UserIds :
       /\ EnterHandler("start", u)
       /\ replies' = IF is_authorized(u) THEN <<"greeting">> ELSE <<"not_authorized">>
  /\ UNCHANGED pc

\* status_command (bot.py 64-74)
status_command ==
  /\ Dispatchable
  /\ "status" \in app.handlers
  /\ \E u \in UserIds :
       /\ EnterHandler("status", u)
       /\ replies' = IF is_authorized(u) THEN <<"status">> ELSE <<"not_authorized">>
  /\ UNCHANGED pc

\* next_send_command (bot.py 95-105)
next_send_command ==
  /\ Dispatchable
  /\ "next_send" \in app.handlers
  /\ \E u \in UserIds :
       /\ EnterHandler("next_send", u)
       /\ replies' = IF is_authorized(u) THEN <<"next_send">> ELSE <<"not_authorized">>
  /\ UNCHANGED pc

\* send_now_command up to its second await (bot.py 76-82)
send_now_command_silent ==
  /\ Dispatchable
  /\ "send_now" \in app.handlers
  /\ \E u \in UserIds :
       /\ EnterHandler("send_now", u)
       /\ IF is_authorized(u)
            THEN /\ replies' = <<>>
                 /\ pc' = [pc EXCEPT !["cmd"] = "gen"]
            ELSE /\ replies' = <<"not_authorized">>
                 /\ UNCHANGED pc

send_now_command_unchecked ==
  /\ Dispatchable
  /\ "send_now" \in app.handlers
  /\ \E u \in UserIds :
       /\ EnterHandler("send_now", u)
       /\ replies' = <<"generating">>
       /\ pc' = [pc EXCEPT !["cmd"] = "gen"]

send_now_command ==
  /\ Dispatchable
  /\ "send_now" \in app.handlers
  /\ \E u \in UserIds :
       /\ EnterHandler("send_now", u)
       /\ IF is_authorized(u)
            THEN /\ replies' = <<"generating">>
                 /\ pc' = [pc EXCEPT !["cmd"] = "gen"]
            ELSE /\ replies' = <<"not_authorized">>
                 /\ UNCHANGED pc

\* generate_file is entered and reaches subprocess.run (bot.py 134-156).
generate_file_call(t) ==
  /\ tool' = tool \cup {t}
  /\ pc' = [pc EXCEPT ![t] = "tool"]
  /\ genCalls' = [genCalls EXCEPT ![t] = @ + 1]

\* send_now_command resumes after the progress reply and calls
\* generate_file (bot.py 84-85).
send_now_generate ==
  /\ LoopFree
  /\ pc["cmd"] = "gen"
  /\ generate_file_call("cmd")
  /\ UNCHANGED <<clockVars, authorized_users, config, app, cmd, file_paths,
                 lastGen, disk, replies, outcome, sendResult, sched>>

\* The job queue fires weekly_job_callback, which calls generate_file at
\* once (bot.py 306-309); the bookkeeping of its previous run is cleared.
weekly_job_callback ==
  /\ app.state = "polling"
  /\ app.job
  /\ LoopFree
  /\ pc["job"] = "idle"
  /\ tool' = tool \cup {"job"}
  /\ pc' = [pc EXCEPT !["job"] = "tool"]
  /\ genCalls' = [genCalls EXCEPT !["job"] = 1]
  /\ file_paths' = [file_paths EXCEPT !["job"] = <<>>]
  /\ lastGen' = [lastGen EXCEPT !["job"] = NoGen]
  /\ outcome' = [outcome EXCEPT !["job"] = <<>>]
  /\ sendResult' = [sendResult EXCEPT !["job"] = "none"]
  /\ UNCHANGED <<clockVars, authorized_users, config, app, cmd, disk, replies,
                 sched>>

\* The ways the subprocess call can end: the tool exits with status zero or
\* nonzero, subprocess.run raises TimeoutExpired, or another exception is
\* raised (bot.py 151-166, 186-191).
Exits == {"zero", "nonzero", "timeout", "exception"}

\* What generate_file returns (bot.py 164-191): <<>> stands for None.
generate_file_result_any_exit(exit, dir) ==
  IF exit # "exception" /\ dir # {} THEN iterdir(dir) ELSE {<<>>}

generate_file_result(exit, dir) ==
  IF exit = "zero" /\ dir # {} THEN iterdir(dir) ELSE {<<>>}

\* The chat a delivery of t goes to: send_now uses the chat of the update
\* (bot.py 87), the weekly job int(self.chat_id) (bot.py 312), which raises
\* ValueError when the chat id is a name.
ChatIdUsable(t) == t = "cmd" \/ config.chat_id = "numeric"

\* Where the caller of generate_file goes with a list that is not empty:
\* into send_file, or, when int(self.chat_id) raises, out of the callback
\* (bot.py 312) or into weekly_scheduler's except clause (bot.py 293, 301);
\* weekly_scheduler with no chat id logs and loops (bot.py 292, 299).
AfterGenerate(t) ==
  IF ChatIdUsable(t) THEN "sending"
  ELSE IF t # "sched" THEN "idle"
  ELSE IF config.chat_id = "" THEN "top" ELSE "recover"

\* Where a caller is once its attempt is over: the handlers return, the
\* loop of weekly_scheduler starts over (bot.py 277).
AfterAttempt(t) == IF t = "sched" THEN "top" ELSE "idle"

\* asyncio.sleep(3600) of weekly_scheduler's except clause (bot.py 304)
RecoverySeconds == 3600
RecoverySleep == [days |-> 0, seconds |-> RecoverySeconds, microseconds |-> 0]

\* weekly_scheduler's attempt ends with the loop at `to`: the except clause
\* starts its sleep at once (bot.py 301-304).
sched_attempt_over(t, to) ==
  IF t # "sched" \/ to = "sending" THEN sched
  ELSE [sched EXCEPT
          !.finished_in_time =
             InstantLess(now, timedelta_add(sched.next_friday[1], 7)),
          !.wake = IF to = "recover" THEN <<datetime_add(now, RecoverySleep)>>
                   ELSE <<>>]

\* The subprocess call ends (names: the files the tool can write),
\* generate_file returns, and its caller runs on
\* to its next suspension: into send_file up to the first send_document
\* (bot.py 86-87, 311-312, 246-251), or to its failure branch (bot.py 90,
\* 318), or out of the callback with the ValueError.
generate_file_return(t, names) ==
  /\ pc[t] = "tool"
  /\ \E exit \in Exits :
     \E produced \in (IF exit = "exception" THEN {{}} ELSE SUBSET names) :
     \E fp \in generate_file_result(exit, disk \cup produced) :
       /\ disk' = disk \cup produced
       /\ tool' = tool \ {t}
       /\ lastGen' = [lastGen EXCEPT ![t] = [exit |-> exit, produced |-> produced # {}]]
       /\ file_paths' = [file_paths EXCEPT ![t] = fp]
       /\ IF fp # <<>>
            THEN /\ pc' = [pc EXCEPT ![t] = AfterGenerate(t)]
                 /\ sched' = sched_attempt_over(t, AfterGenerate(t))
                 /\ UNCHANGED replies
            ELSE /\ pc' = [pc EXCEPT ![t] = AfterAttempt(t)]
                 /\ sched' = sched_attempt_over(t, AfterAttempt(t))
                 /\ replies' = IF t = "cmd"
                                 THEN Append(replies, "generation_failed")
                                 ELSE replies
  /\ UNCHANGED <<clockVars, authorized_users, config, app, cmd, genCalls,
                 outcome, sendResult>>

\* send_file returns r to its caller, which runs to its end: send_now_command
\* replies without looking at r (bot.py 87-88), the job logs (bot.py 312-316).
send_file_return(t, r) ==
  /\ sendResult' = [sendResult EXCEPT ![t] = r]
  /\ pc' = [pc EXCEPT ![t] = AfterAttempt(t)]
  /\ sched' = sched_attempt_over(t, AfterAttempt(t))
  /\ replies' = IF t = "cmd" THEN Append(replies, "sent_successfully") ELSE replies

\* What send_file did with one file: send_document returned and the file was
\* unlinked ("sent_deleted"), send_document returned and unlink raised with
\* the file still there ("sent_kept") or already gone ("sent_gone"),
\* send_document raised ("failed"), open raised ("unopened").
idx(t) == Len(outcome[t]) + 1
FilesWith(t, kinds) ==
  {file_paths[t][i] : i \in {j \in 1..Len(outcome[t]) : outcome[t][j] \in kinds}}
Sent == {"sent_deleted", "sent_kept", "sent_gone"}
confirmed(t) == FilesWith(t, Sent)
deleted(t) == FilesWith(t, {"sent_deleted", "failed_deleted"})
unlinkFailed(t) == FilesWith(t, {"sent_kept", "sent_gone"})

\* One round of send_file's loop (bot.py 249-273): the awaited send_document
\* ends.  If it raised, the except clause returns False.  If it returned,
\* the file is unlinked (the unlink may raise, which is logged), and the
\* loop opens the next file and suspends in its send_document, or returns.
send_file_iteration_finally(t) ==
  /\ LoopFree
  /\ pc[t] = "sending"
  /\ LET f == file_paths[t][idx(t)] IN
     \E ok \in BOOLEAN, unlinkOk \in BOOLEAN :
       LET removed == unlinkOk /\ f \in disk
           disk2 == IF removed THEN disk \ {f} ELSE disk
           this == IF ok THEN (IF removed THEN "sent_deleted"
                               ELSE IF f \in disk THEN "sent_kept" ELSE "sent_gone")
                         ELSE (IF removed THEN "failed_deleted" ELSE "failed")
       IN
       /\ disk' = disk2
       /\ IF ~ok
            THEN /\ outcome' = [outcome EXCEPT ![t] = Append(@, this)]
                 /\ send_file_return(t, "false")
            ELSE IF idx(t) < Len(file_paths[t])
                   THEN IF file_paths[t][idx(t) + 1] \in disk2
                          THEN /\ outcome' = [outcome EXCEPT ![t] = Append(@, this)]
                               /\ UNCHANGED <<pc, replies, sendResult, sched>>
                          ELSE /\ outcome' = [outcome EXCEPT ![t] = @ \o <<this, "unopened">>]
                               /\ send_file_return(t, "false")
                   ELSE /\ outcome' = [outcome EXCEPT ![t] = Append(@, this)]
                        /\ send_file_return(t, "true")
  /\ UNCHANGED <<clockVars, authorized_users, config, app, cmd, file_paths,
                 tool, lastGen, genCalls>>

send_file_iteration_unlink_aborts(t) ==
  /\ LoopFree
  /\ pc[t] = "sending"
  /\ LET f == file_paths[t][idx(t)] IN
     \E ok \in BOOLEAN, unlinkOk \in BOOLEAN :
       IF ~ok
         THEN /\ outcome' = [outcome EXCEPT ![t] = Append(@, "failed")]
              /\ send_file_return(t, "false")
              /\ UNCHANGED disk
         ELSE LET removed == unlinkOk /\ f \in disk
                  disk2 == IF removed THEN disk \ {f} ELSE disk
                  this == IF removed THEN "sent_deleted"
                          ELSE IF f \in disk THEN "sent_kept" ELSE "sent_gone"
              IN
              /\ disk' = disk2
              /\ IF ~removed
                   THEN /\ outcome' = [outcome EXCEPT ![t] = Append(@, this)]
                        /\ send_file_return(t, "false")
                   ELSE IF idx(t) < Len(file_paths[t])
                          THEN IF file_paths[t][idx(t) + 1] \in disk2
                                 THEN /\ outcome' = [outcome EXCEPT ![t] = Append(@, this)]
                                      /\ UNCHANGED <<pc, replies, sendResult, sched>>
                                 ELSE /\ outcome' = [outcome EXCEPT ![t] = @ \o <<this, "unopened">>]
                                      /\ send_file_return(t, "false")
                          ELSE /\ outcome' = [outcome EXCEPT ![t] = Append(@, this)]
                               /\ send_file_return(t, "true")
  /\ UNCHANGED <<clockVars, authorized_users, config, app, cmd, file_paths,
                 tool, lastGen, genCalls>>

send_file_iteration(t) ==
  /\ LoopFree
  /\ pc[t] = "sending"
  /\ LET f == file_paths[t][idx(t)] IN
     \E ok \in BOOLEAN, unlinkOk \in BOOLEAN :
       IF ~ok
         THEN /\ outcome' = [outcome EXCEPT ![t] = Append(@, "failed")]
              /\ send_file_return(t, "false")
              /\ UNCHANGED disk
         ELSE LET removed == unlinkOk /\ f \in disk
                  disk2 == IF removed THEN disk \ {f} ELSE disk
                  this == IF removed THEN "sent_deleted"
                          ELSE IF f \in disk THEN "sent_kept" ELSE "sent_gone"
              IN
              /\ disk' = disk2
              /\ IF idx(t) < Len(file_paths[t])
                   THEN IF file_paths[t][idx(t) + 1] \in disk2
                          THEN /\ outcome' = [outcome EXCEPT ![t] = Append(@, this)]
                               /\ UNCHANGED <<pc, replies, sendResult, sched>>
                          ELSE /\ outcome' = [outcome EXCEPT ![t] = @ \o <<this, "unopened">>]
                               /\ send_file_return(t, "false")
                   ELSE /\ outcome' = [outcome EXCEPT ![t] = Append(@, this)]
                        /\ send_file_return(t, "true")
  /\ UNCHANGED <<clockVars, authorized_users, config, app, cmd, file_paths,
                 tool, lastGen, genCalls>>

Next ==
  \/ run
  \/ start_command
  \/ status_command
  \/ send_now_command
  \/ next_send_command
  \/ send_now_generate
  \/ weekly_job_callback
  \/ \E t \in Tasks : generate_file_return(t, Files)
  \/ \E t \in Tasks : send_file_iteration(t)

Spec == BotInit /\ [][Next]_vars

(***************************************************************************)
(* Specification JobSpec: no update arrives; the weekly job alone          *)
(* generates and delivers batches of up to MaxBatch files.                 *)
(***************************************************************************)
JobNext ==
  \/ run
  \/ weekly_job_callback
  \/ generate_file_return("job", BatchFiles)
  \/ send_file_iteration("job")

JobSpec == BotInit /\ [][JobNext]_vars

(***************************************************************************)
(* Specification SchedSpec: weekly_scheduler runs as the only task while   *)
(* the clock moves on between its steps.                                   *)
(***************************************************************************)
\* The instants the clock shows: midnight, the last microsecond before
\* the target time, the target time and an hour after it, every day.
SchedTimes == {<<0, 0, 0, 0>>, <<TargetHour - 1, 59, 59, 999999>>, TargetTime,
               <<TargetHour + 1, 0, 0, 0>>}
SchedInstants ==
  {[day |-> d, hour |-> tm[1], minute |-> tm[2], second |-> tm[3],
    microsecond |-> tm[4]] : d \in 0..MaxDay, tm \in SchedTimes}

\* Time passes: to a later instant of the day or to the next midnight.
ClockTick ==
  /\ \E t \in SchedInstants :
       /\ InstantLess(now, t)
       /\ \/ t.day = now.day
          \/ t.day = now.day + 1 /\ TimeOfDay(t) = <<0, 0, 0, 0>>
       /\ now' = t
  /\ UNCHANGED <<next_friday, botVars>>

SchedInit ==
  /\ now \in SchedInstants
  /\ next_friday = <<>>
  /\ authorized_users = {}
  /\ config \in {c \in Configs : c.token /\ c.huami_email /\ c.huami_password}
  /\ app = NewApp
  /\ cmd = NoCmd
  /\ pc = [t \in Tasks |-> IF t = "sched" THEN "top" ELSE "idle"]
  /\ file_paths = [t \in Tasks |-> <<>>]
  /\ tool = {}
  /\ lastGen = [t \in Tasks |-> NoGen]
  /\ genCalls = [t \in Tasks |-> 0]
  /\ disk = {}
  /\ replies = <<>>
  /\ outcome = [t \in Tasks |-> <<>>]
  /\ sendResult = [t \in Tasks |-> "none"]
  /\ sched = NoSched
  /\ ns = NoNs

\* The loop starts a round and reads the clock (bot.py 277-279); the
\* bookkeeping of the round before is cleared.
sched_read_now ==
  /\ pc["sched"] = "top"
  /\ pc' = [pc EXCEPT !["sched"] = "read"]
  /\ sched' = [sched EXCEPT !.now = <<now>>]
  /\ genCalls' = [genCalls EXCEPT !["sched"] = 0]
  /\ file_paths' = [file_paths EXCEPT !["sched"] = <<>>]
  /\ lastGen' = [lastGen EXCEPT !["sched"] = NoGen]
  /\ outcome' = [outcome EXCEPT !["sched"] = <<>>]
  /\ sendResult' = [sendResult EXCEPT !["sched"] = "none"]
  /\ UNCHANGED <<clockVars, authorized_users, config, app, cmd, tool, disk,
                 replies>>

\* get_next_friday reads the clock itself (bot.py 280, 109), the sleep is
\* computed from the instant read before and awaited (bot.py 283-286).
sched_sleep ==
  /\ pc["sched"] = "read"
  /\ pc' = [pc EXCEPT !["sched"] = "sleeping"]
  /\ LET nf == get_next_friday(now)
         sleep_seconds == datetime_sub(nf, sched.now[1])
     IN sched' = [sched EXCEPT
                    !.now = <<>>,
                    !.next_friday = <<nf>>,
                    !.prev = sched.next_friday,
                    !.sleep_seconds = <<sleep_seconds>>,
                    !.wake = <<IF DeltaPositive(sleep_seconds)
                                 THEN datetime_add(now, sleep_seconds)
                                 ELSE now>>,
                    !.read_in_time =
                       /\ sched.next_friday # <<>>
                       /\ InstantLess(now, timedelta_add(sched.next_friday[1], 7))]
  /\ UNCHANGED <<clockVars, authorized_users, config, app, cmd, file_paths,
                 tool, lastGen, genCalls, disk, replies, outcome, sendResult>>

\* The sleep is over and generate_file is called (bot.py 286-290).
sched_wake_early ==
  /\ pc["sched"] = "sleeping"
  /\ LoopFree
  /\ generate_file_call("sched")
  /\ sched' = [sched EXCEPT
                 !.sleep_seconds = <<>>, !.wake = <<>>, !.prev = <<>>,
                 !.read_in_time = FALSE, !.finished_in_time = FALSE,
                 !.recovered = FALSE,
                 !.triggered_early = InstantLess(now, sched.next_friday[1])]
  /\ UNCHANGED <<clockVars, authorized_users, config, app, cmd, file_paths,
                 lastGen, disk, replies, outcome, sendResult>>

sched_wake ==
  /\ pc["sched"] = "sleeping"
  /\ LoopFree
  /\ ~InstantLess(now, sched.wake[1])
  /\ generate_file_call("sched")
  /\ sched' = [sched EXCEPT
                 !.sleep_seconds = <<>>, !.wake = <<>>, !.prev = <<>>,
                 !.read_in_time = FALSE, !.finished_in_time = FALSE,
                 !.recovered = FALSE,
                 !.triggered_early = InstantLess(now, sched.next_friday[1])]
  /\ UNCHANGED <<clockVars, authorized_users, config, app, cmd, file_paths,
                 lastGen, disk, replies, outcome, sendResult>>

\* The sleep of the except clause is over and the loop starts over
\* (bot.py 304, 277).
sched_recovered ==
  /\ pc["sched"] = "recover"
  /\ LoopFree
  /\ ~InstantLess(now, sched.wake[1])
  /\ pc' = [pc EXCEPT !["sched"] = "top"]
  /\ sched' = [sched EXCEPT !.wake = <<>>, !.recovered = TRUE]
  /\ UNCHANGED <<clockVars, authorized_users, config, app, cmd, file_paths,
                 tool, lastGen, genCalls, disk, replies, outcome, sendResult>>

SchedNext ==
  \/ ClockTick
  \/ sched_read_now
  \/ sched_sleep
  \/ sched_wake
  \/ generate_file_return("sched", Files)
  \/ send_file_iteration("sched")
  \/ sched_recovered

SchedSpec == SchedInit /\ [][SchedNext]_vars

(***************************************************************************)
(* Specification NextSendSpec: an authorized /next_send is handled while   *)
(* the clock moves on between the handler's clock reads.                   *)
(***************************************************************************)
\* The text of get_time_until_next_friday (bot.py 123-132): the numbers it
\* shows, <<>> for a part left out.
time_text(delta) ==
  LET days == delta.days
      hours == delta.seconds \div 3600
      minutes == (delta.seconds % 3600) \div 60
  IN IF days > 0
       THEN [days |-> <<days>>, hours |-> <<hours>>, minutes |-> minutes]
       ELSE IF hours > 0
              THEN [days |-> <<>>, hours |-> <<hours>>, minutes |-> minutes]
              ELSE [days |-> <<>>, hours |-> <<>>, minutes |-> minutes]

NextSendInit ==
  /\ now \in SchedInstants
  /\ next_friday = <<>>
  /\ authorized_users = {}
  /\ config = FullConfig
  /\ BotQuiet

\* next_send_command computes the occurrence it reports (bot.py 101, 109).
ns_next_send ==
  /\ ns.pc = "idle"
  /\ ns' = [NoNs EXCEPT !.pc = "next_send", !.next_send = <<get_next_friday(now)>>]
  /\ UNCHANGED <<now, next_friday, authorized_users, config, app, cmd, pc,
                 file_paths, tool, lastGen, genCalls, disk, replies, outcome,
                 sendResult, sched>>

\* get_time_until_next_friday computes the occurrence again (bot.py 119, 109).
ns_next_friday ==
  /\ ns.pc = "next_send"
  /\ ns' = [ns EXCEPT !.pc = "next_friday", !.next_friday = <<get_next_friday(now)>>]
  /\ UNCHANGED <<now, next_friday, authorized_users, config, app, cmd, pc,
                 file_paths, tool, lastGen, genCalls, disk, replies, outcome,
                 sendResult, sched>>

\* get_time_until_next_friday reads the clock and formats the difference,
\* and the reply is sent (bot.py 120-132, 102-105).
ns_reply ==
  /\ ns.pc = "next_friday"
  /\ ns' = [ns EXCEPT
              !.pc = "idle",
              !.next_friday = <<>>,
              !.now = <<now>>,
              !.reply = <<[next_send |-> ns.next_send[1],
                           remaining |-> time_text(datetime_sub(ns.next_friday[1], now))]>>]
  /\ UNCHANGED <<now, next_friday, authorized_users, config, app, cmd, pc,
                 file_paths, tool, lastGen, genCalls, disk, replies, outcome,
                 sendResult, sched>>

NextSendNext ==
  \/ ClockTick
  \/ ns_next_send
  \/ ns_next_friday
  \/ ns_reply

NextSendSpec == NextSendInit /\ [][NextSendNext]_vars

TypeOK ==
  /\ pc \in [Tasks -> {"idle", "gen", "tool", "sending", "top", "read",
                       "sleeping", "recover"}]
  /\ tool \subseteq Tasks
  /\ disk \subseteq Files \cup BatchFiles

Unauthorized(u) == authorized_users # {} /\ u \notin authorized_users

\* C4: when the caller of any of the four commands is not authorized, the
\* handler sends the fixed rejection reply and does nothing else: it is
\* finished, generate_file was not invoked, no file was sent or deleted and
\* no other reply was sent.
C4_UnauthorizedOnlyRejected ==
  (cmd.kind # "none" /\ Unauthorized(cmd.user))
    => /\ replies = <<"not_authorized">>
       /\ pc["cmd"] = "idle"
       /\ "cmd" \notin tool
       /\ genCalls["cmd"] = 0
       /\ file_paths["cmd"] = <<>>
       /\ outcome["cmd"] = <<>>
       /\ sendResult["cmd"] = "none"

C4_Witness ==
  /\ cmd.kind = "send_now"
  /\ Unauthorized(cmd.user)
  /\ replies = <<"not_authorized">>
  /\ disk # {}

\* C5: is_authorized returns true for every user id when the authorized set
\* is empty, and exactly for the members of the set when it is not empty;
\* the value a handler obtained for its caller is that value.
C5_IsAuthorized ==
  /\ authorized_users = {} => \A u \in UserIds : is_authorized(u)
  /\ authorized_users # {}
       => \A u \in UserIds : is_authorized(u) <=> u \in authorized_users
  /\ cmd.kind # "none"
       => (cmd.authorized <=> (authorized_users = {} \/ cmd.user \in authorized_users))

C5_Witness ==
  /\ cmd.kind = "status"
  /\ authorized_users # {}
  /\ cmd.user \notin authorized_users
  /\ ~cmd.authorized
  /\ \E u \in authorized_users : is_authorized(u)

\* C6 as stated: after a run of send_file, a file of the batch has been
\* deleted if and only if its send was confirmed.
C6_DeletedIffConfirmed ==
  \A t \in Tasks :
    sendResult[t] # "none"
      => \A i \in 1..Len(outcome[t]) :
           (outcome[t][i] \in Sent) <=> (outcome[t][i] \in {"sent_deleted", "sent_gone"})

\* In this step the send_file run of t finishes file f with a result of kinds.
Finishes(t, f, kinds) ==
  /\ pc[t] = "sending"
  /\ Len(outcome'[t]) > Len(outcome[t])
  /\ f = file_paths[t][idx(t)]
  /\ outcome'[t][idx(t)] \in kinds

\* C6 amended: a file leaves the disk only in the step in which a send_file
\* run had the send of that file confirmed, and a file whose send is
\* confirmed is off the disk after that step unless the unlink raised, in
\* which case it is recorded as kept.
C6_DeletedOnlyAfterConfirmedSend ==
  [][\A f \in BatchFiles :
       /\ (f \in disk /\ f \notin disk')
            => \E t \in Tasks : Finishes(t, f, {"sent_deleted"})
       /\ \A t \in Tasks :
            Finishes(t, f, Sent) => (f \notin disk' \/ Finishes(t, f, {"sent_kept"}))]_vars

C6_Witness ==
  \E t \in Tasks :
    /\ sendResult[t] = "true"
    /\ Len(outcome[t]) = 2
    /\ outcome[t][1] = "sent_kept"
    /\ outcome[t][2] = "sent_deleted"
    /\ file_paths[t][1] \in disk
    /\ file_paths[t][2] \notin disk

\* C7: in a batch of three files where only the send of file #2 fails,
\* send_file goes on to file #3: the outcome is success, failed, success,
\* file #1 and file #3 are transmitted and file #2 stays on disk.
C7_ContinuesAfterFailedFile ==
  (/\ sendResult["job"] # "none"
   /\ Len(file_paths["job"]) = 3
   /\ Len(outcome["job"]) >= 2
   /\ outcome["job"][1] \in Sent
   /\ outcome["job"][2] = "failed")
    => /\ Len(outcome["job"]) = 3
       /\ outcome["job"][3] \in Sent
       /\ file_paths["job"][2] \in disk

\* C8: the external tool never runs in two generate_file invocations at the
\* same time.
C8_SingleFlight == Cardinality(tool) <= 1

C8_Witness ==
  /\ tool = {"job"}
  /\ pc["cmd"] = "gen"
  /\ cmd.kind = "send_now"

\* C9: while generate_file waits on the tool, a status or next_send command
\* is not blocked: with the dispatcher free, its handler can run and answer
\* before the tool has returned.
C9_StatusNotBlockedByGenerate ==
  (tool # {} /\ pc["cmd"] = "idle")
    => (ENABLED status_command /\ ENABLED next_send_command)

\* C10: when the tool exits with status zero and this invocation produced no
\* new file, generate_file returns no file set, whatever the directory
\* holds.
C10_NoNewFileGivesNoArtifacts ==
  \A t \in Tasks :
    (lastGen[t].exit = "zero" /\ ~lastGen[t].produced) => file_paths[t] = <<>>

\* C11: when the transport fails for a file during a delivery started by
\* send_now, send_file does not return success and the result reply of
\* send_now is not the "files sent successfully" reply.
C11_NoSuccessReplyAfterFailedSend ==
  (/\ cmd.kind = "send_now"
   /\ pc["cmd"] = "idle"
   /\ \E i \in 1..Len(outcome["cmd"]) : outcome["cmd"][i] = "failed")
    => /\ sendResult["cmd"] # "true"
       /\ replies[Len(replies)] # "sent_successfully"

\* C12: when the tool times out or exits nonzero, generate_file returns no
\* file set and its caller attempts no delivery: no file is sent or deleted
\* for that attempt.
C12_ToolFailureGivesNoDelivery ==
  \A t \in Tasks :
    lastGen[t].exit \in {"timeout", "nonzero"}
      => /\ file_paths[t] = <<>>
         /\ outcome[t] = <<>>
         /\ sendResult[t] = "none"
         /\ pc[t] # "sending"
         /\ (t = "cmd" => replies = <<"generating", "generation_failed">>)

C12_Witness ==
  /\ lastGen["job"] = [exit |-> "timeout", produced |-> TRUE]
  /\ lastGen["cmd"] = [exit |-> "nonzero", produced |-> FALSE]
  /\ disk # {}
  /\ pc["job"] = "idle"
  /\ pc["cmd"] = "idle"

ConfigMissing ==
  \/ ~config.token
  \/ config.chat_id = ""
  \/ ~config.huami_email
  \/ ~config.huami_password

\* C13: when the token, the chat id or a tool credential is missing, run()
\* does not proceed: no handler is registered, no weekly job is scheduled,
\* polling is not started, and neither the generator nor a delivery runs.
C13_MissingConfigStopsRun ==
  ConfigMissing
    => /\ app.handlers = {}
       /\ ~app.job
       /\ app.state # "polling"
       /\ cmd = NoCmd
       /\ tool = {}
       /\ disk = {}
       /\ \A t \in Tasks : /\ pc[t] = "idle"
                           /\ genCalls[t] = 0
                           /\ file_paths[t] = <<>>
                           /\ outcome[t] = <<>>

C13_Witness ==
  /\ app.state = "returned"
  /\ config.token
  /\ config.chat_id = "numeric"
  /\ config.huami_email
  /\ ~config.huami_password

ResultReplies == {"sent_successfully", "generation_failed", "error"}

AllSent(t) ==
  /\ file_paths[t] # <<>>
  /\ Len(outcome[t]) = Len(file_paths[t])
  /\ \A i \in 1..Len(outcome[t]) : outcome[t][i] \in Sent

\* C18: send_file returns True only if every file of the batch was
\* transmitted, in list order and each once; an unlink that fails after a
\* confirmed send neither changes the return value nor stops the loop.
C18_TrueOnlyIfAllSent ==
  \A t \in Tasks :
    /\ sendResult[t] = "true" => AllSent(t)
    /\ \A i, j \in 1..Len(file_paths[t]) : file_paths[t][i] = file_paths[t][j] => i = j
    /\ (AllSent(t) /\ pc[t] # "sending") => sendResult[t] = "true"
    /\ \A i \in 1..Len(outcome[t]) :
         (outcome[t][i] \in {"sent_kept", "sent_gone"} /\ i < Len(file_paths[t]))
           => (Len(outcome[t]) > i \/ pc[t] = "sending")

C18_Witness ==
  /\ sendResult["job"] = "true"
  /\ Len(outcome["job"]) = 3
  /\ outcome["job"][2] = "sent_kept"
  /\ outcome["job"][3] = "sent_deleted"
  /\ file_paths["job"][2] \in disk

\* The files a delivery in progress still has to send.
Pending(t) ==
  IF pc[t] = "sending"
    THEN {file_paths[t][i] : i \in idx(t)..Len(file_paths[t])}
    ELSE {}

\* C19: no artifact file is handed to two deliveries (so none is sent
\* twice), and every file of a returned set is still on disk when its own
\* delivery reaches it.
C19_NoFileInTwoDeliveries ==
  /\ \A t1, t2 \in Tasks : t1 # t2 => Pending(t1) \cap Pending(t2) = {}
  /\ \A t \in Tasks : \A i \in 1..Len(outcome[t]) : outcome[t][i] # "unopened"

\* weekly_scheduler's attempt is over and failed: generate_file returned
\* None, no chat id is set, send_file returned False or int() raised.
SchedAttemptFailed ==
  /\ genCalls["sched"] > 0
  /\ pc["sched"] \in {"top", "recover"}
  /\ sendResult["sched"] # "true"

\* C15: every failed trigger of weekly_scheduler is followed by the one-hour
\* recovery sleep before the loop starts over to compute the next occurrence.
C15_FailedTriggerGivesRecoverySleep ==
  (SchedAttemptFailed /\ pc["sched"] = "top") => sched.recovered

\* C16 as stated: after an attempt, succeeded or failed, the loop is back in
\* its waiting part; an attempt that finished before the occurrence following
\* the one it served is followed by a wait for exactly that occurrence,
\* neither the same one again nor a later one.
C16_FinishedInTimeGivesFollowing ==
  /\ (genCalls["sched"] > 0 /\ pc["sched"] \notin {"tool", "sending"})
       => pc["sched"] \in {"top", "recover"}
  /\ (sched.prev # <<>> /\ sched.finished_in_time)
       => sched.next_friday[1] = timedelta_add(sched.prev[1], 7)

\* C16: after an attempt, succeeded or failed, the loop is back in its
\* waiting part; the occurrence it waits for next is never the one just
\* served, and it is the one following it whenever get_next_friday reads the
\* clock before that following occurrence.
C16_ReadInTimeGivesFollowing ==
  /\ (genCalls["sched"] > 0 /\ pc["sched"] \notin {"tool", "sending"})
       => pc["sched"] \in {"top", "recover"}
  /\ sched.prev # <<>>
       => /\ InstantLess(sched.prev[1], sched.next_friday[1])
          /\ sched.read_in_time
               => sched.next_friday[1] = timedelta_add(sched.prev[1], 7)

C16_Witness ==
  /\ pc["sched"] = "sleeping"
  /\ sched.prev # <<>>
  /\ sched.read_in_time
  /\ sched.recovered
  /\ sched.next_friday[1] = timedelta_add(sched.prev[1], 7)

\* C17: the sleep weekly_scheduler computes is strictly positive and at most
\* 7 days, and generate_file is never called before the occurrence the sleep
\* was computed for.
C17_SleepPositiveAtMostWeek ==
  /\ sched.sleep_seconds # <<>>
       => /\ DeltaPositive(sched.sleep_seconds[1])
          /\ DeltaAtMostWeek(sched.sleep_seconds[1])
  /\ ~sched.triggered_early

\* C20: in every next_send reply the time remaining is not negative and is
\* the distance from the instant the handler read last to the occurrence
\* the reply names as the next automatic send, however the clock moved
\* between the handler's reads.
C20_RemainingIsDistanceToReported ==
  ns.reply # <<>>
    => LET delta == datetime_sub(ns.reply[1].next_send, ns.now[1])
       IN /\ delta.days >= 0
          /\ ns.reply[1].remaining = time_text(delta)

====
